---- MODULE Spec2Model ----
(***************************************************************************)
(* Model of the School Dashboard script (src/app.py).                      *)
(*                                                                         *)
(* The script is rerun from top to bottom on every page load or widget     *)
(* interaction.  One run is modelled by the program counter pc:            *)
(*   "load"    lines 21-60   fetch, normalise, merge, grade column,        *)
(*                           option domains                                *)
(*   "widgets" lines 62-98   sidebar selections, filter, metrics, top-5    *)
(*   "insights" lines 96-98  the top-5 table alone (SpecTop only)          *)
(*   "edit"    lines 100-141 data editor, the Update Changes loop, charts  *)
(*                           and the CSV download button                   *)
(*   "done"                  run finished; any interaction reruns          *)
(*   "error"                 an exception stopped the run                  *)
(*                                                                         *)
(* A missing value (pandas NaN / None, or a field absent from a Mongo      *)
(* document) is the empty tuple NaN; a present value v is <<v>>.           *)
(* The fields _id, name and enrollment_date are not modelled: none of the  *)
(* modelled computations reads them.                                       *)
(***************************************************************************)
EXTENDS Integers, Sequences, FiniteSets, TLC

VARIABLES
    db_students,          \* db.students collection (list of documents)
    db_courses,           \* db.courses collection
    db_enrollments,       \* db.enrollments collection
    pc,                   \* position of the current run of the script
    runs,                 \* number of completed reruns
    df_merged,            \* merged table, grade column filled
    df_columns,           \* column names of the merged table, in order
    grade_col,            \* name of the grade column in use
    options,              \* course/instructor/grade options, min_age, max_age
    selection,            \* selected_courses/grades/instructors, age_range
    filtered,             \* filtered rows
    metrics,              \* the four st.metric values
    top_courses,          \* top-5 table
    edited,               \* rows returned by st.data_editor
    download              \* NaN, or <<csv>> when the download button is shown

vars == <<db_students, db_courses, db_enrollments, pc, runs, df_merged,
          df_columns, grade_col, options, selection, filtered, metrics, top_courses,
          edited, download>>

db == <<db_students, db_courses, db_enrollments>>
inmem == <<df_merged, df_columns, grade_col, options, selection, filtered, metrics,
           top_courses>>

----------------------------------------------------------------------------
\* Missing values and small helpers

NaN == <<>>
isna(x) == x = NaN
notna(x) == x # NaN

Range(s) == {s[i] : i \in DOMAIN s}

RECURSIVE SeqSum(_)
SeqSum(s) == IF s = <<>> THEN 0 ELSE Head(s) + SeqSum(Tail(s))

Reverse(s) == [i \in 1..Len(s) |-> s[Len(s) + 1 - i]]

SetMin(S) == CHOOSE x \in S : \A y \in S : x <= y
SetMax(S) == CHOOSE x \in S : \A y \in S : x >= y

RECURSIVE Concat(_)
Concat(groups) ==
    IF groups = <<>> THEN <<>> ELSE Head(groups) \o Concat(Tail(groups))

----------------------------------------------------------------------------
\* Bounds and input domains

MaxEnrollments == 2       \* enrollment documents in the store
MaxRuns == 1              \* reruns of the script after the first run
MaxEdits == 1             \* cell/row edits made in the data editor
NumTopCourses == 6        \* courses offered to the top-5 table (SpecTop)
MaxJoinDocs == 2          \* documents per collection in SpecJoin

\* head(5) of the top-courses table
TopN == 5

StudentIds == {1, 2}
CourseIds == {10, 11}
Ages == {20, 22}
Grades == {"A", "B"}

\* Course names in the order pandas sorts them (groupby sorts its keys).
NameOrder == <<"Art", "Bio", "Chem", "Drama", "Econ", "French", "Geo", "Math",
               "Unknown">>

Opt(S) == {NaN} \cup {<<v>> : v \in S}

StudentDocs == [student_id : StudentIds, age : Opt(Ages), grade : {NaN}]
CourseDocs ==
    [course_id : {10}, course_name : Opt({"Math"}), instructor : Opt({"DrX"})]
    \cup [course_id : {11}, course_name : Opt({"Art", "Math"}),
           instructor : {<<"DrX">>, <<"DrY">>}]
EnrollmentDocs ==
    {[student_id |-> 1, course_id |-> 10, grade |-> <<"A">>],
     [student_id |-> 1, course_id |-> 11, grade |-> NaN],
     [student_id |-> 2, course_id |-> 10, grade |-> <<"B">>],
     [student_id |-> 2, course_id |-> 11, grade |-> NaN]}

SeqsUpTo(S, n) == UNION {[1..k -> S] : k \in 0..n}

UniqueOn(docs, key) ==
    \A i, j \in DOMAIN docs : docs[i][key] = docs[j][key] => i = j

Increasing(docs, key) ==
    \A i, j \in DOMAIN docs : i < j => docs[i][key] < docs[j][key]

----------------------------------------------------------------------------
\* Normalizer (lines 28-37)

\* "f" in df.columns: pd.DataFrame(list of dicts) has a column for every key
\* that occurs in some document.
HasColumn(docs, f) == \E i \in DOMAIN docs : notna(docs[i][f])

\* df[f] = default when the column is absent from the whole collection.
FillMissingColumn(docs, f, default) ==
    IF HasColumn(docs, f) THEN docs
    ELSE [i \in DOMAIN docs |-> [docs[i] EXCEPT ![f] = <<default>>]]

df_students == FillMissingColumn(db_students, "age", 0)
df_courses ==
    FillMissingColumn(FillMissingColumn(db_courses, "course_name", "Unknown"),
                      "instructor", "Unknown")
df_enrollments == db_enrollments

----------------------------------------------------------------------------
\* Joiner (lines 39-48)

Matches(right, key, v) == SelectSeq(right, LAMBDA r : r[key] = v)

\* Mutant: an inner join, which drops the enrollment without a student.
JoinStudentRowInner(e, studs) ==
    LET m == Matches(studs, "student_id", e.student_id)
    IN [j \in 1..Len(m) |->
          [student_id |-> e.student_id, course_id |-> e.course_id,
           egrade |-> e.grade, age |-> m[j].age, sgrade |-> m[j].grade,
           course_name |-> NaN, instructor |-> NaN, grade |-> NaN]]

\* One enrollment row joined to its student rows: one output row per matching
\* student, or (how="left") one row with missing student fields.
JoinStudentRow(e, studs) ==
    LET m == Matches(studs, "student_id", e.student_id)
        row(age, sg) == [student_id |-> e.student_id, course_id |-> e.course_id,
                         egrade |-> e.grade, age |-> age, sgrade |-> sg,
                         course_name |-> NaN, instructor |-> NaN, grade |-> NaN]
    IN IF m = <<>> THEN <<row(NaN, NaN)>>
       ELSE [j \in 1..Len(m) |-> row(m[j].age, m[j].grade)]

JoinCourseRow(r, crs) ==
    LET m == Matches(crs, "course_id", r.course_id)
    IN IF m = <<>> THEN <<r>>
       ELSE [j \in 1..Len(m) |->
               [r EXCEPT !.course_name = m[j].course_name,
                         !.instructor = m[j].instructor]]

\* df_enrollments.merge(df_students, on="student_id", how="left")
MergeStudents(enr, studs) ==
    Concat([i \in DOMAIN enr |-> JoinStudentRow(enr[i], studs)])

\* (...).merge(df_courses, on="course_id", how="left")
MergeCourses(rows, crs) ==
    Concat([i \in DOMAIN rows |-> JoinCourseRow(rows[i], crs)])

Merge(enr, studs, crs) == MergeCourses(MergeStudents(enr, studs), crs)

\* The merge raises KeyError when a frame has no key column, which is the case
\* exactly when its collection is empty (a DataFrame of no documents has no
\* columns).
MergeRaises == db_students = <<>> \/ db_courses = <<>> \/ db_enrollments = <<>>

\* Column names of the merged table: the enrollment's columns, the student's,
\* the course's; a name both sides of a merge carry gets the suffixes _x, _y.
MergedColumns ==
    LET e == HasColumn(df_enrollments, "grade")
        s == HasColumn(df_students, "grade")
    IN <<"student_id", "course_id">>
       \o (IF e THEN <<IF s THEN "grade_x" ELSE "grade">> ELSE <<>>)
       \o <<"age">>
       \o (IF s THEN <<IF e THEN "grade_y" ELSE "grade">> ELSE <<>>)
       \o <<"course_name", "instructor">>

\* "grade" in c.lower(), over the column names that occur
ContainsGrade(c) == c \in {"grade", "grade_x", "grade_y"}

grade_cols(columns) == SelectSeq(columns, ContainsGrade)

IndexOf(columns, c) == CHOOSE i \in DOMAIN columns : columns[i] = c

\* The row field that holds a merged column: a grade column left of "age"
\* came from the enrollments, one right of it from the students.
Field(c, columns) ==
    IF c = "grade_x" THEN "egrade"
    ELSE IF c = "grade_y" THEN "sgrade"
    ELSE IF c = "grade"
         THEN (IF IndexOf(columns, c) < IndexOf(columns, "age") THEN "egrade"
               ELSE "sgrade")
    ELSE c

fillna(v, default) == IF isna(v) THEN <<default>> ELSE v

\* Mutant: the sentinel is set only when the column is synthesized.
FillGradeSynthOnly(rows, columns) ==
    LET gc == grade_cols(columns)
    IN [i \in DOMAIN rows |->
          [rows[i] EXCEPT !.grade =
              IF gc # <<>> THEN rows[i][Field(gc[1], columns)]
              ELSE <<"N/A">>]]

\* Lines 42-48; the column in use is kept in the field "grade" of each row.
FillGrade(rows, columns) ==
    LET gc == grade_cols(columns)
    IN [i \in DOMAIN rows |->
          [rows[i] EXCEPT !.grade =
              IF gc # <<>> THEN fillna(rows[i][Field(gc[1], columns)], "N/A")
              ELSE <<"N/A">>]]

GradeCol(columns) ==
    IF grade_cols(columns) # <<>> THEN grade_cols(columns)[1] ELSE "grade"

\* df_merged[grade_col] = "N/A" appends the column when it is new.
ColumnsAfterFill(columns) ==
    IF grade_cols(columns) # <<>> THEN columns ELSE Append(columns, "grade")

----------------------------------------------------------------------------
\* Option domains (lines 55-60)

\* Series.dropna().unique(): distinct present values in order of appearance.
RECURSIVE Unique(_)
Unique(s) ==
    IF s = <<>> THEN <<>>
    ELSE LET r == Unique(SubSeq(s, 1, Len(s) - 1))
             x == s[Len(s)]
         IN IF isna(x) \/ x[1] \in Range(r) THEN r ELSE Append(r, x[1])

Column(rows, f) == [i \in DOMAIN rows |-> rows[i][f]]

Present(col) == SelectSeq(col, notna)

PresentAges(rows) == {v[1] : v \in Range(Present(Column(rows, "age")))}

\* int(df_merged["age"].min()) raises ValueError when min() is NaN, i.e. when
\* no row has an age.
AgeRaises(rows) == PresentAges(rows) = {}

NoOptions == [course_options |-> <<>>, instructor_options |-> <<>>,
              grade_options |-> <<>>, min_age |-> 0, max_age |-> 0]

Options(rows) ==
    [course_options |-> Unique(Column(rows, "course_name")),
     instructor_options |-> Unique(Column(rows, "instructor")),
     grade_options |-> Unique(Column(rows, "grade")),
     min_age |-> SetMin(PresentAges(rows)),
     max_age |-> SetMax(PresentAges(rows))]

----------------------------------------------------------------------------
\* Filter engine (lines 62-72)

\* Mutant: an empty list of values filters nothing.
isinOrEmpty(v, values) == values = {} \/ (notna(v) /\ v[1] \in values)

\* Series.isin(values): a missing value is in no list of present values.
isin(v, values) == notna(v) /\ v[1] \in values

\* Series.between(lo, hi): inclusive, False on a missing value.
between(v, lo, hi) == notna(v) /\ lo <= v[1] /\ v[1] <= hi

Keep(r, sel) ==
    /\ isin(r.course_name, sel.selected_courses)
    /\ isin(r.grade, sel.selected_grades)
    /\ between(r.age, sel.age_range[1], sel.age_range[2])
    /\ isin(r.instructor, sel.selected_instructors)

Filter(rows, sel) == SelectSeq(rows, LAMBDA r : Keep(r, sel))

\* What the sidebar widgets can return: any subset of each option list, and
\* any lo <= hi on the slider between min_age and max_age.
Selections(opts) ==
    [selected_courses : SUBSET Range(opts.course_options),
     selected_grades : SUBSET Range(opts.grade_options),
     selected_instructors : SUBSET Range(opts.instructor_options),
     age_range : {r \in (opts.min_age..opts.max_age) \X (opts.min_age..opts.max_age) :
                    r[1] <= r[2]}]

\* The widgets' defaults: every option, the full range.
DefaultSelection(opts) ==
    [selected_courses |-> Range(opts.course_options),
     selected_grades |-> Range(opts.grade_options),
     selected_instructors |-> Range(opts.instructor_options),
     age_range |-> <<opts.min_age, opts.max_age>>]

NoSelection == [selected_courses |-> {}, selected_grades |-> {},
                selected_instructors |-> {}, age_range |-> <<0, 0>>]

----------------------------------------------------------------------------
\* Aggregator (lines 88-98)

\* Mutant: count(), the number of present values.
nuniqueCount(col) == Len(Present(col))

\* Series.nunique(): number of distinct present values.
nunique(col) == Cardinality(Range(Present(col)))

\* num/den rounded to the nearest integer, ties to the even one (round()).
RoundHalfEven(num, den) ==
    LET q == num \div den
        r == num % den
    IN IF 2 * r < den THEN q
       ELSE IF 2 * r > den THEN q + 1
       ELSE IF q % 2 = 0 THEN q ELSE q + 1

\* round(filtered["age"].mean(), 1), in tenths; mean() skips missing values.
AverageAge10(rows) ==
    LET ages == [i \in DOMAIN Present(Column(rows, "age")) |->
                    Present(Column(rows, "age"))[i][1]]
    IN RoundHalfEven(10 * SeqSum(ages), Len(ages))

IdColumn(rows) == [i \in DOMAIN rows |-> <<rows[i].student_id>>]

Metrics(rows) ==
    [total_students |-> nunique(IdColumn(rows)),
     total_courses |-> nunique(Column(rows, "course_name")),
     average_age10 |-> IF rows # <<>> THEN AverageAge10(rows) ELSE 0,
     enrollments_count |-> Len(rows)]

NoMetrics == [total_students |-> 0, total_courses |-> 0, average_age10 |-> 0,
              enrollments_count |-> 0]

\* groupby(course_col)["student_id"].nunique(): one entry per present course
\* name, keys sorted.
GroupNunique(rows) ==
    LET names == {v[1] : v \in Range(Present(Column(rows, "course_name")))}
        keys == SelectSeq(NameOrder, LAMBDA n : n \in names)
    IN [k \in DOMAIN keys |->
          [course_name |-> keys[k],
           students |-> nunique(IdColumn(
               SelectSeq(rows, LAMBDA r : r.course_name = <<keys[k]>>)))]]

\* Insertion of x into an ascending sequence, after the entries equal to it.
RECURSIVE InsertAsc(_, _)
InsertAsc(s, x) ==
    IF s = <<>> THEN <<x>>
    ELSE IF x.students < Head(s).students THEN <<x>> \o s
    ELSE <<Head(s)>> \o InsertAsc(Tail(s), x)

\* argsort of the counts, ascending: numpy sorts up to 16 elements by
\* insertion, which keeps equal counts in their order.
RECURSIVE SortAsc(_)
SortAsc(s) ==
    IF s = <<>> THEN <<>>
    ELSE InsertAsc(SortAsc(SubSeq(s, 1, Len(s) - 1)), s[Len(s)])

\* Mutant: sort_values() with its default ascending order.
SortValuesAsc(s) == SortAsc(s)

\* sort_values(ascending=False): pandas reverses, sorts ascending, reverses.
SortValuesDesc(s) == Reverse(SortAsc(Reverse(s)))

head(s, n) == SubSeq(s, 1, IF Len(s) < n THEN Len(s) ELSE n)

TopCourses(rows) == head(SortValuesDesc(GroupNunique(rows)), TopN)

----------------------------------------------------------------------------
\* Editor and record-store write (lines 100-106)

\* filtered[["student_id", "name", "age", grade_col]]
EditorRows(rows) ==
    [i \in DOMAIN rows |-> [student_id |-> rows[i].student_id,
                            age |-> rows[i].age, grade |-> rows[i].grade]]

\* Rows typed into the editor's empty last line.
AddedRows == [student_id : StudentIds, age : {<<22>>}, grade : {<<"B">>}]

\* One edit in the data editor (num_rows="dynamic"): a cell changed, a row
\* deleted, a row added.
OneEdit(t) ==
    {[t EXCEPT ![i].age = <<a>>] : i \in DOMAIN t, a \in Ages}
    \cup {[t EXCEPT ![i].grade = <<g>>] : i \in DOMAIN t, g \in Grades}
    \cup {SubSeq(t, 1, i - 1) \o SubSeq(t, i + 1, Len(t)) : i \in DOMAIN t}
    \cup {Append(t, r) : r \in AddedRows}

RECURSIVE Edits(_, _)
Edits(t, k) ==
    IF k = 0 THEN {t}
    ELSE LET p == Edits(t, k - 1) IN p \cup UNION {OneEdit(x) : x \in p}

\* Mutant: update_one(..., upsert=True) inserts a document when none matches.
update_one_upsert(coll, sid, age, grade) ==
    LET hit == {i \in DOMAIN coll : coll[i].student_id = sid}
    IN IF hit = {}
       THEN Append(coll, [student_id |-> sid, age |-> age, grade |-> grade])
       ELSE [coll EXCEPT ![SetMin(hit)] = [@ EXCEPT !.age = age, !.grade = grade]]

\* db.students.update_one({"student_id": sid}, {"$set": {age, grade}}): the
\* first matching document is changed; without a match nothing is written.
update_one(coll, sid, age, grade) ==
    LET hit == {i \in DOMAIN coll : coll[i].student_id = sid}
    IN IF hit = {} THEN coll
       ELSE [coll EXCEPT ![SetMin(hit)] = [@ EXCEPT !.age = age, !.grade = grade]]

\* Mutant: the rows are applied last to first.
RECURSIVE UpdateLoopReversed(_, _)
UpdateLoopReversed(coll, rows) ==
    IF rows = <<>> THEN coll
    ELSE update_one(UpdateLoopReversed(coll, Tail(rows)),
                    Head(rows).student_id, Head(rows).age, Head(rows).grade)

\* for _, row in edited.iterrows(): update_one(...)
RECURSIVE UpdateLoop(_, _)
UpdateLoop(coll, rows) ==
    IF rows = <<>> THEN coll
    ELSE UpdateLoop(update_one(coll, Head(rows).student_id, Head(rows).age,
                               Head(rows).grade),
                    Tail(rows))

----------------------------------------------------------------------------
\* CSV export (lines 134-141)

\* One cell of to_csv: a missing value is written as the empty string.
Cell(v) == IF isna(v) THEN "" ELSE v[1]

CsvLine(r, columns, gcol) ==
    [k \in DOMAIN columns |->
        IF columns[k] = gcol THEN Cell(r.grade)
        ELSE IF columns[k] \in {"student_id", "course_id"} THEN r[columns[k]]
        ELSE Cell(r[Field(columns[k], columns)])]

\* filtered.to_csv(index=False): the header line, then one line per row.
to_csv(rows, columns, gcol) ==
    <<columns>> \o [i \in DOMAIN rows |-> CsvLine(rows[i], columns, gcol)]

\* Mutant: the download button is created unconditionally.
DownloadAlways(rows, columns, gcol) == <<to_csv(rows, columns, gcol)>>

\* The download button is created only for a non-empty filtered set.
Download(rows, columns, gcol) ==
    IF rows # <<>> THEN <<to_csv(rows, columns, gcol)>> ELSE NaN

----------------------------------------------------------------------------
\* The record store and the start of a run

StudentCollections ==
    {d \in SeqsUpTo(StudentDocs, Cardinality(StudentIds)) :
        Increasing(d, "student_id")}
CourseCollections ==
    {d \in SeqsUpTo(CourseDocs, Cardinality(CourseIds)) :
        Increasing(d, "course_id")}
EnrollmentCollections == SeqsUpTo(EnrollmentDocs, MaxEnrollments)

InitRun ==
    /\ pc = "load"
    /\ runs = 0
    /\ df_merged = <<>>
    /\ df_columns = <<>>
    /\ grade_col = ""
    /\ options = NoOptions
    /\ selection = NoSelection
    /\ filtered = <<>>
    /\ metrics = NoMetrics
    /\ top_courses = <<>>
    /\ edited = <<>>
    /\ download = NaN

\* A store with unique identifiers (spec, data model), documents in
\* identifier order.
InitView ==
    /\ db_students \in StudentCollections
    /\ db_courses \in CourseCollections
    /\ db_enrollments \in EnrollmentCollections
    /\ InitRun

\* The stores the write path is explored from: both courses on record,
\* student 1 on record, every student with an age.
Init ==
    /\ db_students \in {d \in StudentCollections :
                          /\ d # <<>> /\ d[1].student_id = 1
                          /\ \A i \in DOMAIN d : notna(d[i].age)}
    /\ db_courses = <<[course_id |-> 10, course_name |-> <<"Math">>,
                        instructor |-> <<"DrX">>],
                       [course_id |-> 11, course_name |-> <<"Art">>,
                        instructor |-> <<"DrX">>]>>
    /\ db_enrollments \in {d \in EnrollmentCollections \ {<<>>} :
                            \A i \in DOMAIN d :
                               d[i].student_id = 2 => d[i].course_id = 10}
    /\ InitRun

\* Stores for the joiner alone: identifiers may repeat, students may carry a
\* grade field.
JoinStudentDocs ==
    {[student_id |-> s, age |-> r[1], grade |-> r[2]] :
        s \in StudentIds,
        r \in {<<<<20>>, NaN>>, <<<<22>>, <<"C">>>>}}
    \ {[student_id |-> 2, age |-> <<22>>, grade |-> <<"C">>]}
JoinCourseDocs ==
    {[course_id |-> 10, course_name |-> <<"Math">>, instructor |-> <<"DrX">>],
     [course_id |-> 10, course_name |-> <<"Art">>, instructor |-> <<"DrY">>],
     [course_id |-> 11, course_name |-> NaN, instructor |-> NaN]}

InitJoin ==
    /\ db_students \in SeqsUpTo(JoinStudentDocs, MaxJoinDocs)
    /\ db_courses \in SeqsUpTo(JoinCourseDocs, MaxJoinDocs)
    /\ db_enrollments \in EnrollmentCollections
    /\ InitRun

\* Stores for the top-5 table: NumTopCourses courses, each with one of a few
\* rosters; the run has loaded them and filtered with the default selection.
TopCatalog ==
    [k \in 1..NumTopCourses |->
        [course_id |-> 100 + k, course_name |-> <<NameOrder[k]>>,
         instructor |-> <<"DrX">>]]
TopStudents ==
    [k \in 1..3 |-> [student_id |-> k, age |-> <<20>>, grade |-> NaN]]
Rosters == {<<>>, <<1>>, <<1, 1, 2>>, <<1, 2, 3>>}
RosterRows(roster) ==
    Concat([k \in 1..NumTopCourses |->
              [j \in DOMAIN roster[k] |->
                  [student_id |-> roster[k][j], course_id |-> 100 + k,
                   grade |-> NaN]]])

InitTop ==
    /\ db_students = TopStudents
    /\ db_courses = TopCatalog
    /\ \E roster \in [1..NumTopCourses -> Rosters] :
          /\ RosterRows(roster) # <<>>
          /\ db_enrollments = RosterRows(roster)
    \* no column is missing from these collections: the normalizer changes
    \* nothing
    /\ df_merged = FillGrade(Merge(db_enrollments, TopStudents, TopCatalog),
                             MergedColumns)
    /\ df_columns = ColumnsAfterFill(MergedColumns)
    /\ grade_col = GradeCol(MergedColumns)
    /\ options = Options(df_merged)
    /\ selection = DefaultSelection(options)
    /\ filtered = Filter(df_merged, selection)
    /\ metrics = Metrics(filtered)
    /\ runs = 0
    /\ top_courses = <<>>
    /\ edited = <<>>
    /\ download = NaN
    /\ pc = "insights"

----------------------------------------------------------------------------
\* The steps of a run

\* Lines 21-60.
Load ==
    /\ pc = "load"
    /\ UNCHANGED <<db, runs, selection, filtered, metrics, top_courses, edited,
                   download>>
    /\ IF MergeRaises
       THEN /\ pc' = "error"
            /\ UNCHANGED <<df_merged, df_columns, grade_col, options>>
       ELSE LET m == FillGrade(Merge(df_enrollments, df_students, df_courses),
                               MergedColumns)
            IN /\ df_merged' = m
               /\ df_columns' = ColumnsAfterFill(MergedColumns)
               /\ grade_col' = GradeCol(MergedColumns)
               /\ IF AgeRaises(m)
                  THEN pc' = "error" /\ UNCHANGED options
                  ELSE pc' = "widgets" /\ options' = Options(m)

\* Lines 62-98: the widgets return a selection; filter, metrics, top-5.
Render ==
    /\ pc = "widgets"
    /\ \E sel \in Selections(options) :
          /\ selection' = sel
          /\ filtered' = Filter(df_merged, sel)
          /\ metrics' = Metrics(Filter(df_merged, sel))
          /\ top_courses' = TopCourses(Filter(df_merged, sel))
    /\ pc' = "edit"
    /\ UNCHANGED <<db, runs, df_merged, df_columns, grade_col, options, edited,
                   download>>

\* Mutant: the write is also patched into the rows held in memory.
UpdateChangesWriteBack ==
    /\ pc = "edit"
    /\ filtered # <<>>
    /\ runs < MaxRuns
    /\ \E e \in Edits(EditorRows(filtered), MaxEdits) :
          /\ edited' = e
          /\ db_students' = UpdateLoop(db_students, e)
          /\ df_merged' =
                [i \in DOMAIN df_merged |->
                   LET hit == {k \in DOMAIN e :
                                 e[k].student_id = df_merged[i].student_id}
                   IN IF hit = {} THEN df_merged[i]
                      ELSE [df_merged[i] EXCEPT !.age = e[SetMax(hit)].age]]
    /\ download' = Download(filtered, df_columns, grade_col)
    /\ pc' = "done"
    /\ UNCHANGED <<db_courses, db_enrollments, runs, df_columns, grade_col,
                   options, selection, filtered, metrics, top_courses>>

\* Lines 100-141 with the Update Changes button pressed: the write loop,
\* then the download button.  A write is explored only while a later run can
\* still load it.
UpdateChanges ==
    /\ pc = "edit"
    /\ filtered # <<>>
    /\ runs < MaxRuns
    /\ \E e \in Edits(EditorRows(filtered), MaxEdits) :
          /\ edited' = e
          /\ db_students' = UpdateLoop(db_students, e)
    /\ download' = Download(filtered, df_columns, grade_col)
    /\ pc' = "done"
    /\ UNCHANGED <<db_courses, db_enrollments, runs, inmem>>

\* Lines 100-141 with the editor not shown or the button not pressed.
NoUpdate ==
    /\ pc = "edit"
    /\ download' = Download(filtered, df_columns, grade_col)
    /\ pc' = "done"
    /\ UNCHANGED <<db, runs, inmem, edited>>

\* Any interaction or page load runs the script again from the top; nothing
\* in memory survives.
Rerun ==
    /\ pc \in {"done", "error"}
    /\ runs < MaxRuns
    /\ runs' = runs + 1
    /\ pc' = "load"
    /\ df_merged' = <<>>
    /\ df_columns' = <<>>
    /\ grade_col' = ""
    /\ options' = NoOptions
    /\ selection' = NoSelection
    /\ filtered' = <<>>
    /\ metrics' = NoMetrics
    /\ top_courses' = <<>>
    /\ edited' = <<>>
    /\ download' = NaN
    /\ UNCHANGED db

\* Lines 96-98 alone, from a given filtered set.
TopCoursesExpander ==
    /\ pc = "insights"
    /\ top_courses' = TopCourses(filtered)
    /\ pc' = "edit"
    /\ UNCHANGED <<db, runs, df_merged, df_columns, grade_col, options,
                   selection, filtered, metrics, edited, download>>

Next == Load \/ Render \/ UpdateChanges \/ NoUpdate \/ Rerun

Spec == Init /\ [][Next]_vars

NextView == Load \/ Render \/ NoUpdate

SpecView == InitView /\ [][NextView]_vars

NextJoin == Load

SpecJoin == InitJoin /\ [][NextJoin]_vars

NextTop == TopCoursesExpander

SpecTop == InitTop /\ [][NextTop]_vars
----------------------------------------------------------------------------
\* Properties

Rendered == pc \in {"edit", "done"}
Joined == df_columns # <<>>
StoredIds(coll, key) == {coll[i][key] : i \in DOMAIN coll}

\* C1: with every option selected and the full age range, the filtered set
\* is the whole merged table.
C1_DefaultsReproduceMerged ==
    (Rendered /\ selection = DefaultSelection(options)) => filtered = df_merged

\* C2: with unique student and course identifiers the merged table has
\* exactly one row per enrollment, in order, matched or not.
C2_OneRowPerEnrollment ==
    (Joined /\ UniqueOn(db_students, "student_id")
            /\ UniqueOn(db_courses, "course_id"))
    => /\ Len(df_merged) = Len(db_enrollments)
       /\ \A i \in DOMAIN df_merged :
             /\ df_merged[i].student_id = db_enrollments[i].student_id
             /\ df_merged[i].course_id = db_enrollments[i].course_id

C2_Witness ==
    /\ Joined
    /\ UniqueOn(db_students, "student_id")
    /\ UniqueOn(db_courses, "course_id")
    /\ Len(df_merged) = 2
    /\ \E i \in DOMAIN df_merged :
          df_merged[i].student_id \notin StoredIds(db_students, "student_id")
    /\ \E i \in DOMAIN df_merged :
          df_merged[i].course_id \notin StoredIds(db_courses, "course_id")

\* C3: an empty selection of courses, of grades or of instructors leaves no
\* row, whatever the other selections and the age range are.
C3_EmptySelectionEmptyResult ==
    (Rendered /\ (\/ selection.selected_courses = {}
                  \/ selection.selected_grades = {}
                  \/ selection.selected_instructors = {}))
    => filtered = <<>>

C3_Witness ==
    /\ pc = "edit"
    /\ selection.selected_grades = {}
    /\ selection.selected_courses # {}
    /\ selection.selected_instructors # {}
    /\ \E i \in DOMAIN df_merged :
          /\ isin(df_merged[i].course_name, selection.selected_courses)
          /\ isin(df_merged[i].instructor, selection.selected_instructors)
          /\ between(df_merged[i].age, selection.age_range[1],
                     selection.age_range[2])
    /\ filtered = <<>>

\* C4 as claimed: an empty filtered set is still offered for download, as a
\* CSV of the header line alone.
C4_EmptyExportOffered ==
    (pc = "done" /\ filtered = <<>>) => download = <<<<df_columns>>>>

\* C4 as amended: the download is offered exactly when the filtered set is
\* not empty, and is then the header line followed by one line per row; for
\* an empty filtered set no download is created.
C4_ExportOnlyWhenNonEmpty ==
    pc = "done"
    => /\ filtered = <<>> => isna(download)
       /\ filtered # <<>> =>
             /\ notna(download)
             /\ Len(download[1]) = Len(filtered) + 1
             /\ download[1][1] = df_columns
             /\ \A i \in DOMAIN filtered :
                   Len(download[1][i + 1]) = Len(df_columns)

C4_Witness ==
    /\ pc = "done"
    /\ df_merged # <<>>
    /\ filtered = <<>>
    /\ isna(download)

\* C5: after the join the grade column in use is the first column whose
\* name contains "grade", or a new column "grade"; it is missing in no row,
\* holds "N/A" where the value was missing and the value itself elsewhere.
C5_GradeColumnFilled ==
    Joined =>
      LET raw == Merge(df_enrollments, df_students, df_courses)
          e == HasColumn(db_enrollments, "grade")
          s == HasColumn(db_students, "grade")
      IN /\ grade_col \in Range(df_columns)
         /\ \A k \in DOMAIN df_columns :
               k < IndexOf(df_columns, grade_col)
               => df_columns[k] \notin {"grade", "grade_x", "grade_y"}
         /\ (~e /\ ~s) => grade_col = "grade"
         /\ Len(df_merged) = Len(raw)
         /\ \A i \in DOMAIN df_merged :
               LET was == IF e THEN raw[i].egrade
                          ELSE IF s THEN raw[i].sgrade ELSE NaN
               IN /\ notna(df_merged[i].grade)
                  /\ notna(was) => df_merged[i].grade = was
                  /\ isna(was) => df_merged[i].grade = <<"N/A">>

C5_Witness ==
    /\ Joined
    /\ \E i, j \in DOMAIN df_merged :
          /\ isna(df_merged[i].egrade) /\ df_merged[i].grade = <<"N/A">>
          /\ df_merged[j].egrade = <<"A">> /\ df_merged[j].grade = <<"A">>

\* C6: Total Students is the number of distinct student_id values, Total
\* Courses the number of distinct present course names, Enrollments Count the
\* number of rows, Average Age the mean age to the nearest tenth, and 0 for
\* an empty filtered set.
C6_Metrics ==
    Rendered =>
      LET n == Len(filtered)
          total == SeqSum([i \in DOMAIN filtered |-> filtered[i].age[1]])
          d == 10 * total - n * metrics.average_age10
      IN /\ metrics.total_students =
               Cardinality({filtered[i].student_id : i \in DOMAIN filtered})
         /\ metrics.total_courses =
               Cardinality({filtered[i].course_name : i \in DOMAIN filtered}
                           \ {NaN})
         /\ metrics.enrollments_count = n
         /\ n = 0 => metrics.average_age10 = 0
         /\ n > 0 => (2 * d <= n /\ -2 * d <= n)

\* The spec's example: two students aged 20 and 22 in one course.
C6_Witness ==
    /\ pc = "edit"
    /\ Len(filtered) = 2
    /\ {filtered[i].age : i \in DOMAIN filtered} = {<<20>>, <<22>>}
    /\ metrics = [total_students |-> 2, total_courses |-> 1,
                  average_age10 |-> 210, enrollments_count |-> 2]

\* C7: the top-courses table lists at most 5 courses of the filtered set,
\* each with its number of distinct students, in non-increasing order of
\* that number, and no course left out has more students than a listed one.
StudentsOf(c) ==
    Cardinality({filtered[i].student_id :
                    i \in {j \in DOMAIN filtered : filtered[j].course_name = <<c>>}})
FilteredCourses ==
    {filtered[i].course_name[1] :
        i \in {j \in DOMAIN filtered : notna(filtered[j].course_name)}}
C7_TopCourses ==
    pc = "edit" =>
      LET listed == {top_courses[k].course_name : k \in DOMAIN top_courses}
      IN /\ Len(top_courses) <= 5
         /\ Cardinality(listed) = Len(top_courses)
         /\ listed \subseteq FilteredCourses
         /\ Len(top_courses) < 5 => listed = FilteredCourses
         /\ \A k \in DOMAIN top_courses :
               top_courses[k].students = StudentsOf(top_courses[k].course_name)
         /\ \A k \in DOMAIN top_courses : \A l \in DOMAIN top_courses :
               k < l => top_courses[k].students >= top_courses[l].students
         /\ \A c \in FilteredCourses \ listed : \A k \in DOMAIN top_courses :
               StudentsOf(c) <= top_courses[k].students

C7_Witness ==
    /\ pc = "edit"
    /\ Len(top_courses) = 5
    /\ Cardinality(FilteredCourses) = 6
    /\ top_courses[1].students = 3
    /\ top_courses[5].students = 2
    /\ \E c \in FilteredCourses : StudentsOf(c) = 1

\* C8: Update Changes leaves each student with the age and grade of the last
\* edited row that carries the student's id, and leaves a student without such
\* a row as it was.
C8_LastWriterWins ==
    [][(pc = "edit" /\ pc' = "done") =>
         /\ Len(db_students') = Len(db_students)
         /\ \A j \in DOMAIN db_students :
               LET hit == {i \in DOMAIN edited' :
                             edited'[i].student_id = db_students[j].student_id}
               IN IF hit = {} THEN db_students'[j] = db_students[j]
                  ELSE db_students'[j] =
                          [db_students[j] EXCEPT
                              !.age = edited'[SetMax(hit)].age,
                              !.grade = edited'[SetMax(hit)].grade]]_vars

C8_Witness ==
    /\ pc = "done"
    /\ \E i, k \in DOMAIN edited : \E j \in DOMAIN db_students :
          /\ i < k /\ k = Len(edited)
          /\ edited[i].student_id = edited[k].student_id
          /\ edited[i].age # edited[k].age
          /\ db_students[j].student_id = edited[k].student_id
          /\ db_students[j].age = edited[k].age
          /\ db_students[j].grade = edited[k].grade

\* C9: the write changes the record store alone: the merged table, the
\* filtered set and the aggregates of the run stay as they were, and the next
\* load shows each matched row the age stored for its student.
C9_WriteVisibleAfterReload ==
    [][/\ (pc = "edit" /\ pc' = "done") => inmem' = inmem
       /\ (pc = "load" /\ pc' = "widgets") =>
             \A i \in DOMAIN df_merged' : \A j \in DOMAIN db_students' :
                df_merged'[i].student_id = db_students'[j].student_id
                => df_merged'[i].age = db_students'[j].age]_vars

C9_Witness ==
    /\ pc = "done"
    /\ \E i \in DOMAIN df_merged : \E j \in DOMAIN db_students :
          /\ df_merged[i].student_id = db_students[j].student_id
          /\ df_merged[i].age # db_students[j].age
          /\ \E k \in DOMAIN edited :
                /\ edited[k].student_id = db_students[j].student_id
                /\ edited[k].age = db_students[j].age

\* C10: no step adds, removes or re-keys a student record, and none changes
\* a course or an enrollment record.
C10_StoreShapeKept ==
    [][/\ Len(db_students') = Len(db_students)
       /\ \A j \in DOMAIN db_students :
             db_students'[j].student_id = db_students[j].student_id
       /\ db_courses' = db_courses
       /\ db_enrollments' = db_enrollments]_vars

C10_Witness ==
    /\ pc = "done"
    /\ \E k \in DOMAIN edited :
          edited[k].student_id \notin StoredIds(db_students, "student_id")
    /\ Len(edited) > Len(filtered)
====
